---- MODULE Spec2Model ----
(***************************************************************************)
(* SafeWalking (clairerg/hack-brown2026): the street graph built by        *)
(* loadStreetData (map.js), the shortest-path solver dijkstra and the      *)
(* route aggregation of findSafestRoute (routing.js).                      *)
(*                                                                         *)
(* Numbers.  The program works on IEEE doubles; the model works on         *)
(* integers:                                                               *)
(*   - a coordinate is a pair of integers in units of 0.0001 degree,       *)
(*     latitude counted from 41.2980 and longitude from -72.9500 (the      *)
(*     south-west corner of the zone table);                               *)
(*   - getDistance is in metres (the program: kilometres);                 *)
(*   - an edge weight is in tenths of the program's weight, so that        *)
(*     crimes + km * 100 becomes crimes * 10 + metres;                     *)
(*   - a safety factor is in hundredths, the hash fraction in thousandths. *)
(* JavaScript arrays are 0-based, TLA+ sequences 1-based: graph.nodes[i]   *)
(* is nodes[i + 1].                                                        *)
(***************************************************************************)
EXTENDS Integers, Sequences, FiniteSets, TLC

VARIABLES
    served,       \* what the Overpass endpoint answers to the (constant) query
    graph,        \* map.js:15    let graph = { nodes: [], edges: [] }
    inflight,     \* loadStreetData invocations suspended at their await
    started,      \* loadStreetData invocations so far
    solo,         \* history: the invocation in flight has had no other beside it
    buildLog,     \* history: the graph left by each invocation that ran alone
    findRouteBtnDisabled, \* map.js:188  the disabled property of #findRouteBtn
    streetLayers, \* map.js:18    the drawn streets: colour, width and popup label of each
    startPoint,   \* map.js:24
    endPoint,     \* map.js:25
    clickCount,   \* map.js:26
    clicking,     \* map click handlers suspended at their fetch, by the branch they took
    clickLog,     \* history: the point each map click set, since page load or clearRoute
    routeLayer,   \* map.js:19    the polyline of the displayed route, or null
    routeInfo,    \* the #routeInfo panel: its fields and whether it is shown
    alerted,      \* the text of the last alert() of findSafestRoute, "none" before any
    path,         \* history: what dijkstra returned to the last findSafestRoute
    queryGraph,   \* history: the graph the last findSafestRoute read
    qStart, qEnd, \* arguments of a direct call of dijkstra
    qResult,      \* its outcome
    fnCall,       \* a direct call of one of the other functions: its name and arguments
    fnResult,     \* what the latest such call returned
    fnEarlier,    \* what the call before it, with the same arguments, returned
    run           \* a call of dijkstra followed statement by statement: its locals

vars == <<served, graph, inflight, started, solo, buildLog, findRouteBtnDisabled, streetLayers,
          startPoint, endPoint,
          routeLayer, routeInfo, alerted, path, queryGraph, qStart, qEnd, qResult,
          fnCall, fnResult, fnEarlier, run, clickCount, clicking, clickLog>>

buildVars ==
    <<served, graph, inflight, started, solo, buildLog, findRouteBtnDisabled, streetLayers>>
routeVars == <<startPoint, endPoint, routeLayer, routeInfo, alerted, path, queryGraph>>
callVars  == <<qStart, qEnd, qResult, fnCall, fnResult, fnEarlier, run>>
clickVars == <<clickCount, clicking, clickLog>>

-----------------------------------------------------------------------------
(* Bounds of the model. *)

\* OSM node ids are 1..MaxOsm
MaxOsm == 3
\* length of the fetched way list, written flat: node references and way breaks
MaxRefs == 5
\* loadStreetData invocations in one behaviour
MaxLoads == 2

-----------------------------------------------------------------------------
(* JavaScript values. *)

\* null where the program holds a node id or null
null == 0 - 1
\* null, or a value v, where the program holds an object or null
None == <<>>
Some(v) == <<v>>
Infinity == 1000000000

Min(a, b) == IF a < b THEN a ELSE b
Abs(a) == IF a < 0 THEN 0 - a ELSE a
MinOf(S) == CHOOSE x \in S : \A y \in S : x <= y

RECURSIVE IsqrtIn(_, _, _)
\* the largest r in lo..hi with r * r <= n (lo * lo <= n assumed)
IsqrtIn(n, lo, hi) ==
    IF lo >= hi THEN lo
    ELSE LET mid == (lo + hi + 1) \div 2
         IN  IF mid * mid <= n THEN IsqrtIn(n, mid, hi) ELSE IsqrtIn(n, lo, mid - 1)

Isqrt(n) == IsqrtIn(n, 0, 40000)

RECURSIVE SumSeq(_)
SumSeq(s) == IF s = <<>> THEN 0 ELSE Head(s) + SumSeq(Tail(s))

-----------------------------------------------------------------------------
(* Zone table (the unnamed data file): safety factors in hundredths and    *)
(* the GeoJSON rings, each vertex <<lng, lat>> in model units.             *)

neighborhoodSafetyFactors ==
    [n \in {"Yale Campus", "Westville", "Wooster Square", "East Rock", "Downtown",
            "The Hill", "Fair Haven", "Dwight", "Newhallville", "default"} |->
        CASE n = "Yale Campus"    -> 25
          [] n = "Westville"      -> 30
          [] n = "Wooster Square" -> 32
          [] n = "East Rock"      -> 35
          [] n = "Downtown"       -> 100
          [] n = "The Hill"       -> 140
          [] n = "Fair Haven"     -> 150
          [] n = "Dwight"         -> 160
          [] n = "Newhallville"   -> 180
          [] OTHER                -> 100]

\* the ring west..east x south..north, in the vertex order of the data file
Ring(west, east, south, north) ==
    << <<west, south>>, <<west, north>>, <<east, north>>, <<east, south>>, <<west, south>> >>

neighborhoodPolygons ==
    << [name |-> "Yale Campus",    ring |-> Ring(180, 260, 70, 130)],
       [name |-> "East Rock",      ring |-> Ring(220, 320, 130, 200)],
       [name |-> "Westville",      ring |-> Ring(50, 180, 70, 150)],
       [name |-> "Wooster Square", ring |-> Ring(300, 400, 40, 120)],
       [name |-> "The Hill",       ring |-> Ring(100, 220, 0, 70)],
       [name |-> "Dwight",         ring |-> Ring(0, 50, 70, 140)],
       [name |-> "Downtown",       ring |-> Ring(180, 260, 70, 130)] >>

\* turf.booleanPointInPolygon on one ring: a point on the boundary is inside;
\* otherwise the parity of the ring's crossings of the ray to the east.
OnSegment(x, y, a, b) ==
    /\ y * (a[1] - b[1]) + a[2] * (b[1] - x) + b[2] * (x - a[1]) = 0
    /\ (a[1] - x) * (b[1] - x) <= 0
    /\ (a[2] - y) * (b[2] - y) <= 0

\* x < (xj - xi) * (y - yi) / (yj - yi) + xi, without the division
Crosses(x, y, a, b) ==
    /\ (a[2] > y) # (b[2] > y)
    /\ IF b[2] > a[2]
       THEN (x - a[1]) * (b[2] - a[2]) < (b[1] - a[1]) * (y - a[2])
       ELSE (x - a[1]) * (b[2] - a[2]) > (b[1] - a[1]) * (y - a[2])

booleanPointInPolygon(x, y, ring) ==
    LET segs == 1 .. (Len(ring) - 1)
    IN  \/ \E i \in segs : OnSegment(x, y, ring[i], ring[i + 1])
        \/ Cardinality({i \in segs : Crosses(x, y, ring[i], ring[i + 1])}) % 2 = 1

\* the last feature that contains the point, in the place of the first
getNeighborhoodLastMatch(lat, lng) ==
    LET hits == {i \in DOMAIN neighborhoodPolygons :
                    booleanPointInPolygon(lng, lat, neighborhoodPolygons[i].ring)}
    IN  IF hits = {} THEN "default"
        ELSE neighborhoodPolygons[CHOOSE i \in hits : \A j \in hits : i >= j].name

\* map.js:38-49: the first feature, in the order of the table, that contains the point
getNeighborhoodForPoint(lat, lng) ==
    LET hits == {i \in DOMAIN neighborhoodPolygons :
                    booleanPointInPolygon(lng, lat, neighborhoodPolygons[i].ring)}
    IN  IF hits = {} THEN "default"
        ELSE neighborhoodPolygons[CHOOSE i \in hits : \A j \in hits : i <= j].name

\* map.js:64-65: |sin(1000 lat) cos(1000 lng)| less its integer part, in thousandths.
\* The trigonometric hash has no integer counterpart; the model keeps what the
\* program relies on, a fixed function of the coordinate pair into [0, 1).
pseudoRandom(lat, lng) == (lat * 37 + lng * 91 + lat * lng * 13) % 1000

\* the same with Math.round in the place of Math.floor
crimeOfRounded(fraction, safeFactor) == Min(14, (fraction * 8 * safeFactor + 50000) \div 100000)

\* map.js:68-70: min(14, floor(fraction * 8 * factor))
crimeOf(fraction, safeFactor) == Min(14, (fraction * 8 * safeFactor) \div 100000)

\* map.js:57-71
getCrimeLevel(lat, lng) ==
    LET neighborhood == getNeighborhoodForPoint(lat, lng)
        safeFactor == IF neighborhood \in DOMAIN neighborhoodSafetyFactors
                      THEN neighborhoodSafetyFactors[neighborhood]
                      ELSE neighborhoodSafetyFactors["default"]
    IN  crimeOf(pseudoRandom(lat, lng), safeFactor)

\* the colour with both ends of each tier left out of it
getCrimeColorStrict(crimes) ==
    IF crimes < 2 THEN "#22c55e"
    ELSE IF crimes < 5 THEN "#eab308"
    ELSE IF crimes < 8 THEN "#f97316"
    ELSE "#ef4444"

\* map.js:78-83
getCrimeColor(crimes) ==
    IF crimes <= 2 THEN "#22c55e"
    ELSE IF crimes <= 5 THEN "#eab308"
    ELSE IF crimes <= 8 THEN "#f97316"
    ELSE "#ef4444"

\* map.js:90-95
getCrimeWidth(crimes) ==
    IF crimes <= 2 THEN 2
    ELSE IF crimes <= 5 THEN 3
    ELSE IF crimes <= 8 THEN 4
    ELSE 5

\* map.js:128: the Safety line of a street's popup
popupSafety(crimes) ==
    IF crimes <= 2 THEN "Safe"
    ELSE IF crimes <= 5 THEN "Moderate"
    ELSE IF crimes <= 8 THEN "Unsafe"
    ELSE "Very Unsafe"

\* map.js:104-133: the layers visualizeStreets leaves, one for each edge
visualizeStreets(g) ==
    [k \in DOMAIN g.edges |->
        [color |-> getCrimeColor(g.edges[k].crimes),
         weight |-> getCrimeWidth(g.edges[k].crimes),
         safety |-> popupSafety(g.edges[k].crimes)]]

\* map.js:147-156: the Haversine length, here on the plane tangent at 41.3 N,
\* where 0.0001 degree is 11.1 m of latitude and 8.4 m of longitude; in metres.
planeLength(dLat, dLng) ==
    Isqrt((111 * dLat) * (111 * dLat) + (84 * dLng) * (84 * dLng)) \div 10

\* planeLength over the short spans, as a function (evaluated once)
planeLengthAt == [dLat \in 0 .. 30, dLng \in 0 .. 30 |-> planeLength(dLat, dLng)]

getDistance(lat1, lng1, lat2, lng2) ==
    LET dLat == Abs(lat2 - lat1)
        dLng == Abs(lng2 - lng1)
    IN  IF dLat <= 30 /\ dLng <= 30 THEN planeLengthAt[dLat, dLng] ELSE planeLength(dLat, dLng)

-----------------------------------------------------------------------------
(* The fetched data (map.js:217-234).  data.elements holds node elements   *)
(* {id, lat, lon} and way elements {id, nodes}; the model fixes where each *)
(* OSM node lies and lets the fetched data vary in which node elements are *)
(* present and in the ways.                                                *)

OsmIds == 1 .. MaxOsm

\* element.lat and element.lon of the node element with this id
OsmLat(o) == << 72, 70, 60, 66, 78, 58 >>[((o - 1) % 6) + 1]
OsmLon(o) == << 210, 208, 200, 212, 196, 214 >>[((o - 1) % 6) + 1]

\* the part of the map the node elements lie in
MapLats ==
    LET S == {OsmLat(o) : o \in 1 .. 6}
    IN  (CHOOSE a \in S : \A b \in S : a <= b) .. (CHOOSE a \in S : \A b \in S : a >= b)
MapLngs ==
    LET S == {OsmLon(o) : o \in 1 .. 6}
    IN  (CHOOSE a \in S : \A b \in S : a <= b) .. (CHOOSE a \in S : \A b \in S : a >= b)

\* getCrimeLevel and getNeighborhoodForPoint over that part of the map, as
\* functions (evaluated once)
crimeLevelAt == [lat \in MapLats, lng \in MapLngs |-> getCrimeLevel(lat, lng)]
neighborhoodAt == [lat \in MapLats, lng \in MapLngs |-> getNeighborhoodForPoint(lat, lng)]

EmptyGraph == [nodes |-> <<>>, edges |-> <<>>]

\* a flat list of node references, 0 closing a way, cut into the ways it spells
RECURSIVE SplitWays(_, _)
SplitWays(flat, cur) ==
    IF flat = <<>> THEN (IF cur = <<>> THEN <<>> ELSE <<cur>>)
    ELSE IF Head(flat) = 0 THEN <<cur>> \o SplitWays(Tail(flat), <<>>)
    ELSE SplitWays(Tail(flat), Append(cur, Head(flat)))

FlatLists == UNION {[1 .. n -> 0 .. MaxOsm] : n \in 0 .. MaxRefs}

\* what the endpoint may answer: every way list within the bounds, with every
\* node element present or with that of the last OSM id absent
Datasets ==
    {[nodes |-> OsmIds \ gone, ways |-> SplitWays(flat, <<>>)] :
        gone \in {{}, {MaxOsm}}, flat \in FlatLists}

\* map.js:230-234: the way elements with more than one node reference, in order
CollectWays(data) ==
    SelectSeq([i \in DOMAIN data.ways |-> [id |-> i, nodes |-> data.ways[i]]],
              LAMBDA w : Len(w.nodes) > 1)

RECURSIVE AllRefs(_)
\* the node references of the ways, in the order ways.forEach visits them
AllRefs(ways) == IF ways = <<>> THEN <<>> ELSE Head(ways).nodes \o AllRefs(Tail(ways))

\* the same test without its nodeMap.has() half
IsNewNodeNoDedup(nodeMap, osmNodes, osmNodeId) == osmNodeId \in osmNodes

\* map.js:242: the test that lets a reference create a node
IsNewNode(nodeMap, osmNodes, osmNodeId) ==
    osmNodeId \notin DOMAIN nodeMap /\ osmNodeId \in osmNodes

RECURSIVE CreateNodes(_, _, _)
\* map.js:237-254: st is [nodes: graph.nodes, nodeMap, nodeIdCounter]
CreateNodes(refs, osmNodes, st) ==
    IF refs = <<>> THEN st
    ELSE LET o == Head(refs)
         IN  CreateNodes(Tail(refs), osmNodes,
                IF IsNewNode(st.nodeMap, osmNodes, o)
                THEN [nodes |-> Append(st.nodes,
                                   [id |-> st.nodeIdCounter, lat |-> OsmLat(o),
                                    lng |-> OsmLon(o), osmId |-> o]),
                      nodeMap |-> st.nodeMap @@ (o :> st.nodeIdCounter),
                      nodeIdCounter |-> st.nodeIdCounter + 1]
                ELSE st)

\* map.js:261: the pair is skipped when either end has no node element
SkipPair(osmNodes, fromOsmId, toOsmId) ==
    fromOsmId \notin osmNodes \/ toOsmId \notin osmNodes

\* the edge with its risk taken at its from end, in the place of its midpoint
MakeEdgeRiskAtFrom(nodes, nodeMap, wayId, fromOsmId, toOsmId) ==
    LET fromId == nodeMap[fromOsmId]
        toId == nodeMap[toOsmId]
        fromNode == nodes[fromId + 1]
        toNode == nodes[toId + 1]
        crimes == crimeLevelAt[fromNode.lat, fromNode.lng]
        distance == getDistance(fromNode.lat, fromNode.lng, toNode.lat, toNode.lng)
    IN  [from |-> fromId, to |-> toId, crimes |-> crimes,
         weight |-> crimes * 10 + distance,
         wayId |-> wayId, neighborhood |-> neighborhoodAt[fromNode.lat, fromNode.lng]]

\* map.js:263-284: the edge pushed for one pair of references
MakeEdge(nodes, nodeMap, wayId, fromOsmId, toOsmId) ==
    LET fromId == nodeMap[fromOsmId]
        toId == nodeMap[toOsmId]
        fromNode == nodes[fromId + 1]
        toNode == nodes[toId + 1]
        \* the coordinates of the pool are even, so the halves are exact
        midLat == (fromNode.lat + toNode.lat) \div 2
        midLng == (fromNode.lng + toNode.lng) \div 2
        crimes == crimeLevelAt[midLat, midLng]
        distance == getDistance(fromNode.lat, fromNode.lng, toNode.lat, toNode.lng)
    IN  [from |-> fromId, to |-> toId, crimes |-> crimes,
         weight |-> crimes * 10 + distance,
         wayId |-> wayId, neighborhood |-> neighborhoodAt[midLat, midLng]]

RECURSIVE WayEdgesBreak(_, _, _, _, _)
\* the loop with break in the place of continue: the first pair with an end
\* that has no node element ends the way
WayEdgesBreak(way, i, osmNodes, nodes, nodeMap) ==
    IF i > Len(way.nodes) - 1 THEN <<>>
    ELSE IF SkipPair(osmNodes, way.nodes[i], way.nodes[i + 1]) THEN <<>>
    ELSE <<MakeEdge(nodes, nodeMap, way.id, way.nodes[i], way.nodes[i + 1])>>
         \o WayEdgesBreak(way, i + 1, osmNodes, nodes, nodeMap)

RECURSIVE WayEdges(_, _, _, _, _)
\* map.js:258-285: the for loop over one way, from index i (1-based)
WayEdges(way, i, osmNodes, nodes, nodeMap) ==
    IF i > Len(way.nodes) - 1 THEN <<>>
    ELSE (IF SkipPair(osmNodes, way.nodes[i], way.nodes[i + 1]) THEN <<>>
          ELSE <<MakeEdge(nodes, nodeMap, way.id, way.nodes[i], way.nodes[i + 1])>>)
         \o WayEdges(way, i + 1, osmNodes, nodes, nodeMap)

RECURSIVE CreateEdges(_, _, _, _)
\* map.js:257-286
CreateEdges(ways, osmNodes, nodes, nodeMap) ==
    IF ways = <<>> THEN <<>>
    ELSE WayEdges(Head(ways), 1, osmNodes, nodes, nodeMap)
         \o CreateEdges(Tail(ways), osmNodes, nodes, nodeMap)

\* map.js:219-286: the part of loadStreetData after its awaits, which pushes
\* onto whatever graph the global names at that moment
BuildInto(g, data) ==
    LET osmNodes == data.nodes
        ways == CollectWays(data)
        st == CreateNodes(AllRefs(ways), osmNodes,
                          [nodes |-> g.nodes, nodeMap |-> << >>, nodeIdCounter |-> 0])
    IN  [nodes |-> st.nodes,
         edges |-> g.edges \o CreateEdges(ways, osmNodes, st.nodes, st.nodeMap)]

\* loadStreetData without the reset of line 194
KeptGraph(g) == g

\* map.js:194: graph = { nodes: [], edges: [] }
ClearedGraph(g) == EmptyGraph

-----------------------------------------------------------------------------
(* loadStreetData (map.js:186-305).  It runs to its first await, is        *)
(* suspended while the fetch and response.json() are pending, and runs the *)
(* rest of the try block, or the catch block, in one piece.  Invocations   *)
(* carry no state of their own across the await, so the model counts them. *)

\* the #routeInfo panel as index.html leaves it: hidden, its fields not yet written
NoRouteInfo ==
    [shown |-> FALSE, distance |-> None, crimeScore |-> None, segments |-> None, rating |-> None]

\* what a call of dijkstra comes to: a path, null, or no return at all
NotCalled == [ret |-> "not called", path |-> <<>>]
Returned(p) == [ret |-> "path", path |-> p]
ReturnedNull == [ret |-> "null", path |-> <<>>]
Hang == [ret |-> "hang", path |-> <<>>]

\* no direct call of a function is under way, and no call of dijkstra is
\* followed statement by statement
NoCall == [fn |-> "none", args |-> <<>>]
NotRunning == [pc |-> "idle"]
NoDirectCall == fnCall = NoCall /\ fnResult = None /\ fnEarlier = None /\ run = NotRunning

\* map.js:26, and no map click handler is suspended: the map has not been clicked
NoClicking == [branch \in {"start", "end"} |-> 0]
NoClicks == clickCount = 0 /\ clicking = NoClicking /\ clickLog = <<>>

\* the page after its scripts ran: main.js:16 has called loadStreetData once
PageLoaded ==
    /\ graph = EmptyGraph
    /\ inflight = 1
    /\ started = 1
    /\ solo = TRUE
    /\ buildLog = <<>>
    /\ findRouteBtnDisabled = TRUE
    /\ streetLayers = <<>>
    /\ startPoint = None
    /\ endPoint = None
    /\ routeLayer = None
    /\ routeInfo = NoRouteInfo
    /\ alerted = "none"
    /\ path = NotCalled
    /\ queryGraph = None
    /\ qStart = null
    /\ qEnd = null
    /\ qResult = NotCalled
    /\ NoDirectCall
    /\ NoClicks

\* map.js:187-215: up to the await
LoadStreetDataStart ==
    /\ started < MaxLoads
    /\ graph' = ClearedGraph(graph)
    /\ inflight' = inflight + 1
    /\ started' = started + 1
    /\ solo' = (inflight = 0)
    /\ findRouteBtnDisabled' = TRUE
    /\ streetLayers' = <<>>
    /\ UNCHANGED <<served, buildLog>>
    /\ UNCHANGED routeVars
    /\ UNCHANGED clickVars
    /\ UNCHANGED callVars

\* map.js:217-295: the fetch answered
LoadStreetDataResume ==
    /\ inflight > 0
    /\ graph' = BuildInto(graph, served)
    /\ inflight' = inflight - 1
    /\ solo' = FALSE
    /\ buildLog' = IF solo THEN Append(buildLog, graph') ELSE buildLog
    /\ findRouteBtnDisabled' = FALSE
    /\ streetLayers' = visualizeStreets(graph')
    /\ UNCHANGED <<served, started>>
    /\ UNCHANGED routeVars
    /\ UNCHANGED clickVars
    /\ UNCHANGED callVars

\* map.js:297-304: the fetch failed; the catch block reports it (an alert and
\* the status texts, which the model does not keep) and leaves the graph alone
LoadStreetDataCatch ==
    /\ inflight > 0
    /\ inflight' = inflight - 1
    /\ solo' = FALSE
    /\ findRouteBtnDisabled' = FALSE
    /\ UNCHANGED <<served, graph, started, buildLog, streetLayers>>
    /\ UNCHANGED routeVars
    /\ UNCHANGED clickVars
    /\ UNCHANGED callVars

InitBuild == served \in Datasets /\ PageLoaded

NextBuild == LoadStreetDataStart \/ LoadStreetDataResume \/ LoadStreetDataCatch

\* the graph builder alone, over every fetched dataset within the bounds
SpecBuild == InitBuild /\ [][NextBuild]_vars

-----------------------------------------------------------------------------
(* The graph builder: C5 - C8.                                             *)

NodeIds(g) == {g.nodes[i].id : i \in DOMAIN g.nodes}

\* the ways the builder works on (the RawWay sequence of the specification)
\* and their node references in input order
ServedWays == CollectWays(served)
ServedRefs == AllRefs(ServedWays)
Resolvable(o) == o \in served.nodes

\* C5: after a build every edge of graph.edges has from and to that are ids of
\* nodes of graph.nodes, and from # to.  (The statement of the claim; a way
\* that repeats a node id at consecutive positions refutes it.)
C5_EdgesJoinDistinctNodes ==
    \A b \in DOMAIN buildLog :
        \A k \in DOMAIN buildLog[b].edges :
            /\ buildLog[b].edges[k].from \in NodeIds(buildLog[b])
            /\ buildLog[b].edges[k].to \in NodeIds(buildLog[b])
            /\ buildLog[b].edges[k].from # buildLog[b].edges[k].to

FirstPos(refs, o) == CHOOSE i \in DOMAIN refs : refs[i] = o /\ \A j \in 1 .. (i - 1) : refs[j] # o

OneNodePerSource(g) ==
    /\ \A i, j \in DOMAIN g.nodes : g.nodes[i].osmId = g.nodes[j].osmId => i = j
    /\ {g.nodes[i].osmId : i \in DOMAIN g.nodes}
         = {ServedRefs[r] : r \in DOMAIN ServedRefs} \cap served.nodes
    /\ \A i \in DOMAIN g.nodes : g.nodes[i].id = i - 1
    /\ \A i, j \in DOMAIN g.nodes :
          i < j => FirstPos(ServedRefs, g.nodes[i].osmId) < FirstPos(ServedRefs, g.nodes[j].osmId)

\* C6: after a single build graph.nodes holds exactly one node for each distinct
\* resolvable OSM id appearing in a way, however often it appears; the ids are
\* 0..n-1 in first-seen order and each node's id is its index in graph.nodes.
\* (buildLog only grows at its end, so the latest entry of every state covers all)
C6_OneNodePerSourceId == buildLog # <<>> => OneNodePerSource(buildLog[Len(buildLog)])

\* a single build has run over ways in which a resolvable id recurs and another
\* id has no node element
C6_Witness ==
    /\ buildLog # <<>>
    /\ Len(buildLog[1].nodes) >= 2
    /\ \E r1, r2 \in DOMAIN ServedRefs :
          r1 # r2 /\ ServedRefs[r1] = ServedRefs[r2] /\ Resolvable(ServedRefs[r1])
    /\ \E r \in DOMAIN ServedRefs : ~Resolvable(ServedRefs[r])

RECURSIVE AllPairs(_)
\* every consecutive pair of references of every way: <<way id, from, to>>
AllPairs(ways) ==
    IF ways = <<>> THEN <<>>
    ELSE [i \in 1 .. (Len(Head(ways).nodes) - 1) |->
             <<Head(ways).id, Head(ways).nodes[i], Head(ways).nodes[i + 1]>>]
         \o AllPairs(Tail(ways))

ResolvablePairs == SelectSeq(AllPairs(ServedWays), LAMBDA p : Resolvable(p[2]) /\ Resolvable(p[3]))

OneEdgePerResolvablePair(g) ==
    /\ Len(g.edges) = Len(ResolvablePairs)
    /\ \A k \in DOMAIN g.edges :
          LET e == g.edges[k]
              p == ResolvablePairs[k]
          IN  /\ e.from \in NodeIds(g) /\ e.to \in NodeIds(g)
              /\ <<e.wayId, g.nodes[e.from + 1].osmId, g.nodes[e.to + 1].osmId>> = p
              /\ e.crimes = crimeLevelAt[(OsmLat(p[2]) + OsmLat(p[3])) \div 2,
                                         (OsmLon(p[2]) + OsmLon(p[3])) \div 2]
              /\ e.weight = e.crimes * 10
                            + getDistance(OsmLat(p[2]), OsmLon(p[2]), OsmLat(p[3]), OsmLon(p[3]))

\* C7: a build creates exactly one edge for every consecutive pair of references
\* whose two ends are resolvable and none for a pair with an unresolvable end;
\* such a pair neither ends the build nor changes the edges of the other pairs.
C7_OneEdgePerResolvablePair ==
    buildLog # <<>> => OneEdgePerResolvablePair(buildLog[Len(buildLog)])

\* a build has run over a way in which a pair with an unresolvable end comes
\* before a resolvable pair
C7_Witness ==
    /\ buildLog # <<>>
    /\ \E w \in DOMAIN ServedWays :
          \E i, j \in 1 .. (Len(ServedWays[w].nodes) - 1) :
             /\ i < j
             /\ ~Resolvable(ServedWays[w].nodes[i])
             /\ Resolvable(ServedWays[w].nodes[j]) /\ Resolvable(ServedWays[w].nodes[j + 1])

SameBuild(g, h) ==
    /\ Len(g.nodes) = Len(h.nodes)
    /\ Len(g.edges) = Len(h.edges)
    /\ \A k \in DOMAIN g.edges : k \in DOMAIN h.edges => g.edges[k].weight = h.edges[k].weight

\* C8: a second loadStreetData run after the first has completed, over the same
\* fetched data, leaves a graph with the same node count, the same edge count
\* and the same weight on each corresponding edge.
C8_RebuildIsIdempotent ==
    \A i \in DOMAIN buildLog : i > 1 => SameBuild(buildLog[i - 1], buildLog[i])

\* two builds have run one after the other over data that yields edges
C8_Witness == Len(buildLog) = 2 /\ Len(buildLog[2].edges) >= 2 /\ inflight = 0

-----------------------------------------------------------------------------
(* dijkstra (routing.js:9-72).  The loop state st is                       *)
(* [distances, previous, unvisited]; unvisited is the Set in its insertion *)
(* order, which is the order forEach visits it in.                         *)

RECURSIVE Dedup(_, _)
\* Set.add over a list: the first occurrence of each value, in order
Dedup(ids, seen) ==
    IF ids = <<>> THEN <<>>
    ELSE IF Head(ids) \in seen THEN Dedup(Tail(ids), seen)
    ELSE <<Head(ids)>> \o Dedup(Tail(ids), seen \cup {Head(ids)})

Elems(q) == {q[i] : i \in DOMAIN q}

\* routing.js:10-20
DijkstraInit(g, startNodeId) ==
    [distances |-> [id \in NodeIds(g) \cup {startNodeId} |->
                        IF id = startNodeId THEN 0 ELSE Infinity],
     previous  |-> [id \in NodeIds(g) |-> null],
     unvisited |-> Dedup([i \in DOMAIN g.nodes |-> g.nodes[i].id], {})]

\* a selection that takes the first unvisited node that has been reached at all
SelectFirstReached(st) ==
    LET reached == {i \in DOMAIN st.unvisited : st.distances[st.unvisited[i]] < Infinity}
    IN  IF reached = {} THEN null
        ELSE st.unvisited[CHOOSE i \in reached : \A j \in reached : i <= j]

\* routing.js:25-33: the unvisited node of least distance below Infinity, the
\* first such in visiting order; null when there is none
SelectMin(st) ==
    LET reached == {i \in DOMAIN st.unvisited : st.distances[st.unvisited[i]] < Infinity}
    IN  IF reached = {} THEN null
        ELSE st.unvisited[CHOOSE i \in reached :
                \A j \in reached :
                    \/ st.distances[st.unvisited[i]] < st.distances[st.unvisited[j]]
                    \/ st.distances[st.unvisited[i]] = st.distances[st.unvisited[j]] /\ i <= j]

\* an edge followed from its from end only
NeighborOneWay(edge, currentNode) ==
    IF edge.from = currentNode THEN edge.to ELSE null

\* an edge followed from its to end only
NeighborAgainstOnly(edge, currentNode) ==
    IF edge.to = currentNode THEN edge.from ELSE null

\* routing.js:42-50
Neighbor(edge, currentNode) ==
    IF edge.from = currentNode THEN edge.to
    ELSE IF edge.to = currentNode THEN edge.from
    ELSE null

RECURSIVE RelaxEdgesVisitedToo(_, _, _)
\* the relaxation without its unvisited.has() test and with <= in the place of <
RelaxEdgesVisitedToo(edges, st, currentNode) ==
    IF edges = <<>> THEN st
    ELSE LET edge == Head(edges)
             neighbor == Neighbor(edge, currentNode)
             alt == st.distances[currentNode] + edge.weight
         IN  RelaxEdgesVisitedToo(Tail(edges),
                IF neighbor # null /\ alt <= st.distances[neighbor]
                THEN [st EXCEPT !.distances[neighbor] = alt, !.previous[neighbor] = currentNode]
                ELSE st,
                currentNode)

RECURSIVE RelaxEdges(_, _, _)
\* routing.js:41-60: graph.edges.forEach over the edges still to visit
RelaxEdges(edges, st, currentNode) ==
    IF edges = <<>> THEN st
    ELSE LET edge == Head(edges)
             neighbor == Neighbor(edge, currentNode)
             alt == st.distances[currentNode] + edge.weight
         IN  RelaxEdges(Tail(edges),
                IF /\ neighbor # null
                   /\ neighbor \in Elems(st.unvisited)
                   /\ alt < st.distances[neighbor]
                THEN [st EXCEPT !.distances[neighbor] = alt, !.previous[neighbor] = currentNode]
                ELSE st,
                currentNode)

RECURSIVE MainLoopStopWhenReached(_, _, _)
\* the loop leaving as soon as the end node has a distance, before it is selected
MainLoopStopWhenReached(g, st, endNodeId) ==
    IF st.unvisited = <<>> THEN st
    ELSE LET currentNode == SelectMin(st)
         IN  IF \/ currentNode = null
                \/ currentNode = endNodeId
                \/ endNodeId \in DOMAIN st.distances /\ st.distances[endNodeId] < Infinity
             THEN st
             ELSE MainLoopStopWhenReached(g,
                     RelaxEdges(g.edges,
                                [st EXCEPT !.unvisited =
                                    SelectSeq(st.unvisited, LAMBDA id : id # currentNode)],
                                currentNode),
                     endNodeId)

RECURSIVE MainLoop(_, _, _)
\* routing.js:23-61
MainLoop(g, st, endNodeId) ==
    IF st.unvisited = <<>> THEN st
    ELSE LET currentNode == SelectMin(st)
         IN  IF currentNode = null \/ currentNode = endNodeId THEN st
             ELSE MainLoop(g,
                     RelaxEdges(g.edges,
                                [st EXCEPT !.unvisited =
                                    SelectSeq(st.unvisited, LAMBDA id : id # currentNode)],
                                currentNode),
                     endNodeId)

RECURSIVE Reconstruct(_, _, _)
\* routing.js:64-69.  previous[current] of an id that is no key of previous is
\* undefined, which is not null, and previous[undefined] is undefined again:
\* from there the loop only grows the path.
Reconstruct(previous, current, p) ==
    IF current = null THEN Returned(p)
    ELSE IF current \notin DOMAIN previous THEN Hang
    ELSE IF Len(p) > Cardinality(DOMAIN previous) THEN Hang
    ELSE Reconstruct(previous, previous[current], <<current>> \o p)

\* a return that lets a single-node path through
PathIfAny(p) == IF Len(p) > 0 THEN Returned(p) ELSE ReturnedNull

\* routing.js:71
PathOrNull(p) == IF Len(p) > 1 THEN Returned(p) ELSE ReturnedNull

\* routing.js:9-72
dijkstra(g, startNodeId, endNodeId) ==
    LET st == MainLoop(g, DijkstraInit(g, startNodeId), endNodeId)
        r == Reconstruct(st.previous, endNodeId, <<>>)
    IN  IF r = Hang THEN Hang ELSE PathOrNull(r.path)

-----------------------------------------------------------------------------
(* The solver on its own: a graph left by one complete build, and one call *)
(* of dijkstra, with every pair of ids around that graph.                  *)

BuiltGraphs == {BuildInto(EmptyGraph, d) : d \in Datasets}

\* the ids a caller may pass: every id a node can have, and one no node has
CallIds == 0 .. MaxOsm

InitSolver ==
    /\ graph \in BuiltGraphs
    /\ served = [nodes |-> {}, ways |-> <<>>]
    /\ inflight = 0
    /\ started = 1
    /\ solo = FALSE
    /\ buildLog = <<>>
    /\ findRouteBtnDisabled = FALSE
    /\ streetLayers = visualizeStreets(graph)
    /\ startPoint = None
    /\ endPoint = None
    /\ routeLayer = None
    /\ routeInfo = NoRouteInfo
    /\ alerted = "none"
    /\ path = NotCalled
    /\ queryGraph = None
    /\ qStart \in CallIds
    /\ qEnd \in CallIds
    /\ qResult = NotCalled
    /\ NoDirectCall
    /\ NoClicks

\* the call dijkstra(qStart, qEnd)
CallDijkstra ==
    /\ qResult = NotCalled
    /\ qResult' = dijkstra(graph, qStart, qEnd)
    /\ UNCHANGED <<qStart, qEnd, fnCall, fnResult, fnEarlier, run>>
    /\ UNCHANGED buildVars
    /\ UNCHANGED routeVars
    /\ UNCHANGED clickVars

NextSolver == CallDijkstra

SpecSolver == InitSolver /\ [][NextSolver]_vars

-----------------------------------------------------------------------------
(* The solver: C1 - C3.  What a shortest path is, stated without the       *)
(* solver: adjacency, reachability and least weight over simple walks.     *)

Joins(edge, a, b) ==
    \/ edge.from = a /\ edge.to = b
    \/ edge.from = b /\ edge.to = a

Adjacent(g, a, b) == \E k \in DOMAIN g.edges : Joins(g.edges[k], a, b)

RECURSIVE ReachableFrom(_, _)
ReachableFrom(g, seen) ==
    LET more == seen \cup {b \in NodeIds(g) : \E a \in seen : Adjacent(g, a, b)}
    IN  IF more = seen THEN seen ELSE ReachableFrom(g, more)

Connected(g, a, b) == b \in ReachableFrom(g, {a})

\* the least weight over the edges that join a and b
LeastEdgeWeight(g, a, b) ==
    MinOf({g.edges[k].weight : k \in {j \in DOMAIN g.edges : Joins(g.edges[j], a, b)}})

PathWeight(g, p) == SumSeq([i \in 1 .. (Len(p) - 1) |-> LeastEdgeWeight(g, p[i], p[i + 1])])

\* the walks from a to b that visit no node twice; with weights that are never
\* negative a least walk is among them
SimpleWalks(g, a, b) ==
    {p \in UNION {[1 .. n -> NodeIds(g)] : n \in 2 .. Cardinality(NodeIds(g))} :
        /\ p[1] = a
        /\ p[Len(p)] = b
        /\ \A i, j \in DOMAIN p : p[i] = p[j] => i = j
        /\ \A i \in 1 .. (Len(p) - 1) : Adjacent(g, p[i], p[i + 1])}

\* the least weight of any walk from a to b, Infinity when there is none
LeastWalkWeight(g, a, b) ==
    MinOf({Infinity} \cup {PathWeight(g, p) : p \in SimpleWalks(g, a, b)})

\* C1: when dijkstra(start, end), start # end, returns a path, the path begins
\* with start, ends with end, every two consecutive ids of it are joined by an
\* edge of graph.edges in one direction or the other, and its weight (the least
\* edge weight at each step) is no greater than that of any start-to-end walk.
C1_PathIsShortest ==
    (qResult.ret = "path" /\ qStart # qEnd) =>
        LET p == qResult.path
        IN  /\ p[1] = qStart
            /\ p[Len(p)] = qEnd
            /\ \A i \in 1 .. (Len(p) - 1) : Adjacent(graph, p[i], p[i + 1])
            /\ PathWeight(graph, p) <= LeastWalkWeight(graph, qStart, qEnd)

\* dijkstra has returned a path of two edges although one edge joins start and end
C1_Witness ==
    /\ qResult.ret = "path"
    /\ Len(qResult.path) = 3
    /\ Adjacent(graph, qStart, qEnd)

\* C2: for distinct ids start and end of nodes of the graph, dijkstra returns
\* null exactly when no sequence of edges, taken in either direction, connects
\* start to end; the call returns, and a failure is never reported as a path.
C2_NullIffDisconnected ==
    (qResult.ret # "not called" /\ qStart # qEnd /\ {qStart, qEnd} \subseteq NodeIds(graph)) =>
        /\ qResult.ret \in {"path", "null"}
        /\ (qResult = ReturnedNull) <=> ~Connected(graph, qStart, qEnd)

\* dijkstra has returned null for two nodes of a graph that has edges
C2_Witness ==
    /\ qResult = ReturnedNull
    /\ qStart # qEnd
    /\ {qStart, qEnd} \subseteq NodeIds(graph)
    /\ graph.edges # <<>>

\* C3: dijkstra(n, n) returns null for every node id n of the graph, whatever
\* edges, self-loops included, touch n.
C3_SameNodeIsNull ==
    (qResult.ret # "not called" /\ qStart = qEnd /\ qStart \in NodeIds(graph)) =>
        qResult = ReturnedNull

\* dijkstra(n, n) has returned null for a node with a self-loop and another edge
C3_Witness ==
    /\ qResult = ReturnedNull
    /\ qStart = qEnd
    /\ qStart \in NodeIds(graph)
    /\ \E k \in DOMAIN graph.edges :
          graph.edges[k].from = qStart /\ graph.edges[k].to = qStart
    /\ \E k \in DOMAIN graph.edges :
          graph.edges[k].from # graph.edges[k].to /\ Neighbor(graph.edges[k], qStart) # null

-----------------------------------------------------------------------------
(* findNearestNode (map.js:164-177) and findSafestRoute (routing.js:81-177) *)

RECURSIVE NearestFromLast(_, _, _, _, _)
\* the scan with <= in the place of <: the last of the nearest nodes
NearestFromLast(nodes, lat, lng, minDist, nearestNode) ==
    IF nodes = <<>> THEN nearestNode
    ELSE LET node == Head(nodes)
             dist == getDistance(lat, lng, node.lat, node.lng)
         IN  IF dist <= minDist
             THEN NearestFromLast(Tail(nodes), lat, lng, dist, Some(node))
             ELSE NearestFromLast(Tail(nodes), lat, lng, minDist, nearestNode)

RECURSIVE NearestFrom(_, _, _, _, _)
\* map.js:168-174: nodes.forEach with the running minDist and nearestNode
NearestFrom(nodes, lat, lng, minDist, nearestNode) ==
    IF nodes = <<>> THEN nearestNode
    ELSE LET node == Head(nodes)
             dist == getDistance(lat, lng, node.lat, node.lng)
         IN  IF dist < minDist
             THEN NearestFrom(Tail(nodes), lat, lng, dist, Some(node))
             ELSE NearestFrom(Tail(nodes), lat, lng, minDist, nearestNode)

\* map.js:164-177: the nearest node, or null (None) when there is no node
findNearestNode(g, lat, lng) == NearestFrom(g.nodes, lat, lng, Infinity, None)

\* a lookup that matches an edge in its stored direction only
FindEdgeOneWay(g, fromId, toId) ==
    LET hits == {k \in DOMAIN g.edges : g.edges[k].from = fromId /\ g.edges[k].to = toId}
    IN  IF hits = {} THEN None ELSE Some(g.edges[MinOf(hits)])

\* routing.js:133-136: graph.edges.find, the first edge that joins the two ids
FindEdge(g, fromId, toId) ==
    LET hits == {k \in DOMAIN g.edges :
                    \/ g.edges[k].from = fromId /\ g.edges[k].to = toId
                    \/ g.edges[k].to = fromId /\ g.edges[k].from = toId}
    IN  IF hits = {} THEN None ELSE Some(g.edges[MinOf(hits)])

\* routing.js:125-140: totalCrimes after the loop over the segments of the path
TotalCrimes(g, p) ==
    SumSeq([i \in 1 .. (Len(p) - 1) |->
               LET edge == FindEdge(g, p[i], p[i + 1])
               IN  IF edge # None THEN edge[1].crimes ELSE 0])

\* routing.js:126-145: totalDistance after the loop (metres)
TotalDistance(g, p) ==
    SumSeq([i \in 1 .. (Len(p) - 1) |->
               LET fromNode == g.nodes[p[i] + 1]
                   toNode == g.nodes[p[i + 1] + 1]
               IN  getDistance(fromNode.lat, fromNode.lng, toNode.lat, toNode.lng)])

\* routing.js:148-149: (km * 0.621371).toFixed(2), in hundredths of a mile
MilesText(metres) == (metres * 621371 + 5000000) \div 10000000

\* the rating with both ends of each tier left out of it
SafetyRatingStrict(totalCrimes, segments) ==
    IF totalCrimes < 2 * segments THEN [rating |-> "Very Safe", color |-> "#22c55e"]
    ELSE IF totalCrimes < 5 * segments THEN [rating |-> "Safe", color |-> "#eab308"]
    ELSE IF totalCrimes < 8 * segments THEN [rating |-> "Moderate", color |-> "#f97316"]
    ELSE [rating |-> "Caution Advised", color |-> "#ef4444"]

\* routing.js:154-169: avgCrimes = totalCrimes / segments against 2, 5 and 8
SafetyRating(totalCrimes, segments) ==
    IF totalCrimes <= 2 * segments THEN [rating |-> "Very Safe", color |-> "#22c55e"]
    ELSE IF totalCrimes <= 5 * segments THEN [rating |-> "Safe", color |-> "#eab308"]
    ELSE IF totalCrimes <= 8 * segments THEN [rating |-> "Moderate", color |-> "#f97316"]
    ELSE [rating |-> "Caution Advised", color |-> "#ef4444"]

\* routing.js:111-114
RouteCoords(g, p) == [i \in DOMAIN p |-> <<g.nodes[p[i] + 1].lat, g.nodes[p[i] + 1].lng>>]

\* routing.js:147-173: the panel after a successful search
RouteInfoFor(g, p) ==
    [shown |-> TRUE,
     distance |-> Some(MilesText(TotalDistance(g, p))),
     crimeScore |-> Some(TotalCrimes(g, p)),
     segments |-> Some(Len(p) - 1),
     rating |-> Some(SafetyRating(TotalCrimes(g, p), Len(p) - 1))]

\* the handler taking the displayed route away when it finds no route
FindSafestRouteClearing ==
    IF startPoint = None \/ endPoint = None
    THEN /\ alerted' = "Please select both start and end points!"
         /\ UNCHANGED <<routeLayer, routeInfo, path, queryGraph>>
    ELSE IF Len(graph.nodes) = 0
    THEN /\ alerted' = "Street data not loaded yet. Please wait..."
         /\ queryGraph' = Some(graph)
         /\ UNCHANGED <<routeLayer, routeInfo, path>>
    ELSE LET startNode == findNearestNode(graph, startPoint[1].lat, startPoint[1].lng)
             endNode == findNearestNode(graph, endPoint[1].lat, endPoint[1].lng)
         IN  /\ queryGraph' = Some(graph)
             /\ path' = dijkstra(graph, startNode[1].id, endNode[1].id)
             /\ IF path'.ret = "path"
                THEN /\ routeLayer' = Some(RouteCoords(graph, path'.path))
                     /\ routeInfo' = RouteInfoFor(graph, path'.path)
                     /\ UNCHANGED alerted
                ELSE /\ alerted' = IF path' = ReturnedNull THEN "No route found!" ELSE alerted
                     /\ routeLayer' = None
                     /\ routeInfo' = [routeInfo EXCEPT !.shown = FALSE]

\* routing.js:81-177, the whole handler
FindSafestRoute ==
    IF startPoint = None \/ endPoint = None
    THEN /\ alerted' = "Please select both start and end points!"
         /\ UNCHANGED <<routeLayer, routeInfo, path, queryGraph>>
    ELSE IF Len(graph.nodes) = 0
    THEN /\ alerted' = "Street data not loaded yet. Please wait..."
         /\ queryGraph' = Some(graph)
         /\ UNCHANGED <<routeLayer, routeInfo, path>>
    ELSE LET startNode == findNearestNode(graph, startPoint[1].lat, startPoint[1].lng)
             endNode == findNearestNode(graph, endPoint[1].lat, endPoint[1].lng)
         IN  /\ queryGraph' = Some(graph)
             /\ path' = dijkstra(graph, startNode[1].id, endNode[1].id)
             /\ IF path'.ret = "path"
                THEN /\ routeLayer' = Some(RouteCoords(graph, path'.path))
                     /\ routeInfo' = RouteInfoFor(graph, path'.path)
                     /\ UNCHANGED alerted
                ELSE /\ alerted' = IF path' = ReturnedNull THEN "No route found!" ELSE alerted
                     /\ UNCHANGED <<routeLayer, routeInfo>>

\* the click on #findRouteBtn, which a disabled button does not deliver
FindSafestRouteClick ==
    /\ ~findRouteBtnDisabled
    /\ FindSafestRoute
    /\ UNCHANGED <<startPoint, endPoint>>
    /\ UNCHANGED buildVars
    /\ UNCHANGED callVars
    /\ UNCHANGED clickVars

-----------------------------------------------------------------------------
(* The route search on its own: a graph left by one complete build, start  *)
(* and end points already chosen, and the Find Route button.               *)

\* where a user may put a point: on each node element, and between them
QueryPoints ==
    {[lat |-> OsmLat(o), lng |-> OsmLon(o)] : o \in OsmIds} \cup {[lat |-> 64, lng |-> 204]}

InitRoute ==
    /\ graph \in BuiltGraphs
    /\ served = [nodes |-> {}, ways |-> <<>>]
    /\ inflight = 0
    /\ started = 1
    /\ solo = FALSE
    /\ buildLog = <<>>
    /\ findRouteBtnDisabled = FALSE
    /\ streetLayers = visualizeStreets(graph)
    /\ startPoint \in {Some(pt) : pt \in QueryPoints}
    /\ endPoint \in {Some(pt) : pt \in QueryPoints}
    /\ routeLayer = None
    /\ routeInfo = NoRouteInfo
    /\ alerted = "none"
    /\ path = NotCalled
    /\ queryGraph = None
    /\ qStart = null
    /\ qEnd = null
    /\ qResult = NotCalled
    /\ NoDirectCall
    /\ NoClicks

NextRoute == FindSafestRouteClick

SpecRoute == InitRoute /\ [][NextRoute]_vars

-----------------------------------------------------------------------------
(* The route aggregation: C10.                                             *)

\* The edge dijkstra went along from a to b, b's predecessor being a: while a
\* was the current node the edges were tried in list order and each took b's
\* distance only by lowering it, so the one that set it last is the first of
\* the least-weight edges that join a and b.
TraversedEdge(g, a, b) ==
    LET joining == {k \in DOMAIN g.edges : Joins(g.edges[k], a, b)}
        least == {k \in joining : \A j \in joining : g.edges[k].weight <= g.edges[j].weight}
    IN  g.edges[MinOf(least)]

\* C10: for every path dijkstra returns to findSafestRoute, the total risk shown
\* is the sum, over the consecutive node pairs of the path, of the crimes of the
\* edge the path goes along between them.
C10_TotalRiskIsSumOfEdgeRisks ==
    path.ret = "path" =>
        routeInfo.crimeScore =
            Some(SumSeq([i \in 1 .. (Len(path.path) - 1) |->
                            TraversedEdge(graph, path.path[i], path.path[i + 1]).crimes]))

\* a route of two or more segments with risk on it has been summed, one of its
\* segments running against the stored direction of every edge that joins its ends
C10_Witness ==
    /\ path.ret = "path"
    /\ Len(path.path) >= 3
    /\ routeInfo.crimeScore # None
    /\ routeInfo.crimeScore[1] > 0
    /\ \E i \in 1 .. (Len(path.path) - 1) :
          /\ TraversedEdge(graph, path.path[i], path.path[i + 1]).crimes > 0
          /\ \A k \in DOMAIN graph.edges :
                ~(graph.edges[k].from = path.path[i] /\ graph.edges[k].to = path.path[i + 1])

-----------------------------------------------------------------------------
(* The page as a whole: the loads, the two address fields, the Find Route  *)
(* and Clear buttons, in every order the event loop allows.                *)

\* ui.js:224-237: the start field holds "lat, lng"; the text is taken as the
\* pair of numbers it spells
StartInputChange(pt) ==
    /\ startPoint' = Some(pt)
    /\ UNCHANGED <<endPoint, routeLayer, routeInfo, alerted, path, queryGraph>>
    /\ UNCHANGED buildVars
    /\ UNCHANGED callVars
    /\ UNCHANGED clickVars

\* ui.js:263-276
EndInputChange(pt) ==
    /\ endPoint' = Some(pt)
    /\ UNCHANGED <<startPoint, routeLayer, routeInfo, alerted, path, queryGraph>>
    /\ UNCHANGED buildVars
    /\ UNCHANGED callVars
    /\ UNCHANGED clickVars

\* routing.js:182-203
ClearRoute ==
    /\ routeLayer' = None
    /\ startPoint' = None
    /\ endPoint' = None
    /\ clickCount' = 0
    /\ clickLog' = <<>>
    /\ routeInfo' = [routeInfo EXCEPT !.shown = FALSE]
    /\ UNCHANGED <<alerted, path, queryGraph, clicking>>
    /\ UNCHANGED buildVars
    /\ UNCHANGED callVars

\* the answers of the endpoint the page is run against: no way at all; a
\* triangle in one way; two ways, one through a node without a node element;
\* a way that repeats a node
ServedSamples ==
    { [nodes |-> OsmIds, ways |-> <<>>],
      [nodes |-> OsmIds, ways |-> << <<3, 1, 2, 3>> >>],
      [nodes |-> OsmIds \ {MaxOsm}, ways |-> << <<1, 2>>, <<2, MaxOsm>> >>],
      [nodes |-> OsmIds, ways |-> << <<1, 1, 2>> >>] }

Init == served \in ServedSamples /\ PageLoaded

Next ==
    \/ LoadStreetDataStart
    \/ LoadStreetDataResume
    \/ LoadStreetDataCatch
    \/ \E pt \in QueryPoints : StartInputChange(pt)
    \/ \E pt \in QueryPoints : EndInputChange(pt)
    \/ FindSafestRouteClick
    \/ ClearRoute

Spec == Init /\ [][Next]_vars

-----------------------------------------------------------------------------
(* Loads and queries interleaved: C9.                                      *)

\* C9: under every interleaving of loadStreetData invocations with
\* findSafestRoute calls, the graph a query reads is empty or is exactly the
\* complete graph of one build.  (The statement of the claim; two invocations
\* in flight together refute it.)
C9_QueryReadsOneBuild ==
    queryGraph # None => queryGraph[1] \in {EmptyGraph, BuildInto(EmptyGraph, served)}

-----------------------------------------------------------------------------
(* Queries against the empty graph: C4.                                    *)

\* C4: against a graph with no node and no edge every query ends in an explicit
\* failure: dijkstra, whatever ids it is given, terminates and returns no path;
\* findNearestNode returns no node; findSafestRoute stops at its own alert,
\* which is not the no-route alert, before the solver runs.  (The statement of
\* the claim; dijkstra on the empty graph refutes it.)
C4_EmptyGraphQueriesFail ==
    graph = EmptyGraph =>
        /\ qResult.ret \notin {"hang", "path"}
        /\ \A pt \in QueryPoints : findNearestNode(graph, pt.lat, pt.lng) = None
        /\ queryGraph # None =>
              alerted = "Street data not loaded yet. Please wait..." /\ path = NotCalled

-----------------------------------------------------------------------------
(* The functions that read nothing but their arguments (and, for           *)
(* findNearestNode, the graph), each called directly and then once more    *)
(* with the same arguments.                                                *)

\* no load, no route search and no call of dijkstra is under way; the streets
\* of the graph are drawn
Idle ==
    /\ served = [nodes |-> {}, ways |-> <<>>]
    /\ inflight = 0
    /\ started = 1
    /\ solo = FALSE
    /\ buildLog = <<>>
    /\ findRouteBtnDisabled = FALSE
    /\ streetLayers = visualizeStreets(graph)
    /\ startPoint = None
    /\ endPoint = None
    /\ routeLayer = None
    /\ routeInfo = NoRouteInfo
    /\ alerted = "none"
    /\ path = NotCalled
    /\ queryGraph = None
    /\ qStart = null
    /\ qEnd = null
    /\ qResult = NotCalled
    /\ run = NotRunning
    /\ NoClicks

\* the call under way returns value; it is made once, and once more
Returns(value) ==
    /\ fnEarlier = None
    /\ fnEarlier' = fnResult
    /\ fnResult' = Some(value)
    /\ UNCHANGED <<fnCall, qStart, qEnd, qResult, run>>
    /\ UNCHANGED buildVars
    /\ UNCHANGED routeVars
    /\ UNCHANGED clickVars

\* the longest path whose edge risks are enumerated
MaxSegments == 3
\* map.js:70: the greatest crime score an edge can carry
MaxCrimes == 14

\* a path as the aggregation sees it: the crimes of its edges, in order
RiskLists == UNION {[1 .. n -> 0 .. MaxCrimes] : n \in 1 .. MaxSegments}

RatingCalls == {[fn |-> "safetyRating", args |-> risks] : risks \in RiskLists}

\* routing.js:125-169: totalCrimes summed over the segments, then the rating
CallSafetyRating ==
    /\ fnCall.fn = "safetyRating"
    /\ Returns(SafetyRating(SumSeq(fnCall.args), Len(fnCall.args)))

\* C11: the safety rating of a path is a step function of its mean risk per
\* segment with inclusive upper boundaries: mean <= 2 'Very Safe', else mean <= 5
\* 'Safe', else mean <= 8 'Moderate', else 'Caution Advised'.
C11_RatingIsStepFunctionOfMean ==
    (fnCall.fn = "safetyRating" /\ fnResult # None) =>
        LET total == SumSeq(fnCall.args)
            n == Len(fnCall.args)
            label == fnResult[1].rating
        IN  /\ label \in {"Very Safe", "Safe", "Moderate", "Caution Advised"}
            /\ (label = "Very Safe") <=> (total <= 2 * n)
            /\ (label = "Safe") <=> (2 * n < total /\ total <= 5 * n)
            /\ (label = "Moderate") <=> (5 * n < total /\ total <= 8 * n)
            /\ (label = "Caution Advised") <=> (8 * n < total)

\* the path with edge risks 1, 4, 10, of mean 5, has been rated 'Safe'
C11_Witness ==
    /\ fnCall = [fn |-> "safetyRating", args |-> <<1, 4, 10>>]
    /\ fnResult # None
    /\ fnResult[1].rating = "Safe"

\* how far beyond the zone table, in grid cells, the coordinates go
GridMargin == 1

\* coordinates over the zone table and around it: every tenth unit, which
\* takes in every edge of every ring, the inside of every ring and the outside
GridLats == {10 * k : k \in (0 - GridMargin) .. (20 + GridMargin)}
GridLngs == {10 * k : k \in (0 - GridMargin) .. (40 + GridMargin)}

NeighborhoodCalls ==
    {[fn |-> "getNeighborhoodForPoint", args |-> <<lat, lng>>] : lat \in GridLats, lng \in GridLngs}

\* map.js:38-49
CallGetNeighborhoodForPoint ==
    /\ fnCall.fn = "getNeighborhoodForPoint"
    /\ Returns(getNeighborhoodForPoint(fnCall.args[1], fnCall.args[2]))

\* whether the closed ring of zone i, a rectangle with sides along the axes,
\* contains the point
InZone(i, lat, lng) ==
    LET ring == neighborhoodPolygons[i].ring
        xs == {ring[k][1] : k \in DOMAIN ring}
        ys == {ring[k][2] : k \in DOMAIN ring}
    IN  /\ \E a, b \in xs : a <= lng /\ lng <= b
        /\ \E a, b \in ys : a <= lat /\ lat <= b

\* C12: getNeighborhoodForPoint returns exactly one name: that of the first
\* zone, in the order of neighborhoodPolygons.features, whose closed ring
\* contains the point, 'default' when no zone contains it; a repeated call with
\* the same coordinate returns the same name.
C12_FirstContainingZone ==
    (fnCall.fn = "getNeighborhoodForPoint" /\ fnResult # None) =>
        LET lat == fnCall.args[1]
            lng == fnCall.args[2]
            containing == {i \in DOMAIN neighborhoodPolygons : InZone(i, lat, lng)}
        IN  /\ containing = {} => fnResult[1] = "default"
            /\ containing # {} => fnResult[1] = neighborhoodPolygons[MinOf(containing)].name
            /\ fnEarlier # None => fnEarlier = fnResult

\* a point that two zones of different names contain has been looked up twice
\* and has the name of the earlier zone
C12_Witness ==
    /\ fnCall.fn = "getNeighborhoodForPoint"
    /\ fnEarlier # None
    /\ \E i, j \in DOMAIN neighborhoodPolygons :
          /\ i < j
          /\ InZone(i, fnCall.args[1], fnCall.args[2])
          /\ InZone(j, fnCall.args[1], fnCall.args[2])
          /\ neighborhoodPolygons[j].name \notin {"Downtown", neighborhoodPolygons[i].name}
          /\ fnResult[1] = neighborhoodPolygons[i].name

\* map.js:64-65: hash, which lies in [0, 1] (thousandths: 0..1000), less its
\* integer part
fractionOf(hash) == hash % 1000

\* map.js:60-70 from the hash and the zone's factor on
baseCrime(hash, safeFactor) == crimeOf(fractionOf(hash), safeFactor)

\* every value |sin cos| may take, to the thousandth, with every factor of the table
BaseCrimeCalls ==
    {[fn |-> "baseCrime", args |-> <<hash, neighborhoodSafetyFactors[n]>>] :
        hash \in 0 .. 1000, n \in DOMAIN neighborhoodSafetyFactors}

CrimeLevelCalls ==
    {[fn |-> "getCrimeLevel", args |-> <<lat, lng>>] : lat \in GridLats, lng \in GridLngs}

\* map.js:64-70
CallBaseCrime ==
    /\ fnCall.fn = "baseCrime"
    /\ Returns(baseCrime(fnCall.args[1], fnCall.args[2]))

\* map.js:57-71
CallGetCrimeLevel ==
    /\ fnCall.fn = "getCrimeLevel"
    /\ Returns(getCrimeLevel(fnCall.args[1], fnCall.args[2]))

\* score is min(14, floor(fraction * 8 * factor)), fraction in thousandths and
\* factor in hundredths, said without floor
IsCappedFloor(score, fraction, safeFactor) ==
    /\ score \in 0 .. 14
    /\ fraction \in 0 .. 999
    /\ score * 100000 <= fraction * 8 * safeFactor
    /\ score < 14 => fraction * 8 * safeFactor < (score + 1) * 100000

\* C13: for every coordinate and every zone multiplier of
\* neighborhoodSafetyFactors, the default included, getCrimeLevel returns an
\* integer in 0..14, which is min(14, floor(fraction * 8 * multiplier)) with
\* fraction in [0, 1); two calls with the same coordinates return the same score.
C13_CrimeLevelInRange ==
    /\ (fnCall.fn = "baseCrime" /\ fnResult # None) =>
          /\ IsCappedFloor(fnResult[1], fractionOf(fnCall.args[1]), fnCall.args[2])
          /\ fnEarlier # None => fnEarlier = fnResult
    /\ (fnCall.fn = "getCrimeLevel" /\ fnResult # None) =>
          LET zone == getNeighborhoodForPoint(fnCall.args[1], fnCall.args[2])
          IN  /\ zone \in DOMAIN neighborhoodSafetyFactors
              /\ IsCappedFloor(fnResult[1], pseudoRandom(fnCall.args[1], fnCall.args[2]),
                               neighborhoodSafetyFactors[zone])
              /\ fnEarlier # None => fnEarlier = fnResult

\* getCrimeLevel has been called twice on a coordinate inside a zone and has
\* returned a score in the upper tier
C13_Witness ==
    /\ fnCall.fn = "getCrimeLevel"
    /\ fnEarlier # None
    /\ getNeighborhoodForPoint(fnCall.args[1], fnCall.args[2]) # "default"
    /\ fnResult[1] >= 9

ClassifierCalls ==
    {[fn |-> f, args |-> <<crimes>>] :
        f \in {"getCrimeColor", "getCrimeWidth", "popupSafety"}, crimes \in 0 .. MaxCrimes}

\* map.js:78-83
CallGetCrimeColor ==
    /\ fnCall.fn = "getCrimeColor"
    /\ Returns(getCrimeColor(fnCall.args[1]))

\* map.js:90-95
CallGetCrimeWidth ==
    /\ fnCall.fn = "getCrimeWidth"
    /\ Returns(getCrimeWidth(fnCall.args[1]))

\* map.js:128
CallPopupSafety ==
    /\ fnCall.fn = "popupSafety"
    /\ Returns(popupSafety(fnCall.args[1]))

\* the four tiers, by their boundaries
TierOf(crimes) == IF crimes <= 2 THEN 1 ELSE IF crimes <= 5 THEN 2 ELSE IF crimes <= 8 THEN 3 ELSE 4

\* what each classifier gives in each tier, from the safest tier up
TierColors == <<"#22c55e", "#eab308", "#f97316", "#ef4444">>
TierWidths == <<2, 3, 4, 5>>
TierLabels == <<"Safe", "Moderate", "Unsafe", "Very Unsafe">>
TierRatings == <<"Very Safe", "Safe", "Moderate", "Caution Advised">>

\* the tier the route rating puts a path of n segments of this mean risk in
RatingTier(crimes, n) ==
    CHOOSE t \in 1 .. 4 : TierRatings[t] = SafetyRating(crimes * n, n).rating

\* C17: the edge classifiers and the route rating have the same tier
\* boundaries: for every risk 0..14 getCrimeColor, getCrimeWidth and the popup
\* label put the value in the same one of the four tiers (<= 2, <= 5, <= 8,
\* else) as the route rating puts a mean risk of that value, and the route
\* indicator colour of that tier is getCrimeColor's colour.
C17_SameTierBoundaries ==
    (fnCall.fn \in {"getCrimeColor", "getCrimeWidth", "popupSafety"} /\ fnResult # None) =>
        LET crimes == fnCall.args[1]
        IN  \A n \in 1 .. MaxSegments :
               /\ RatingTier(crimes, n) = TierOf(crimes)
               /\ fnCall.fn = "getCrimeColor" =>
                     /\ fnResult[1] = TierColors[RatingTier(crimes, n)]
                     /\ fnResult[1] = SafetyRating(crimes * n, n).color
               /\ fnCall.fn = "getCrimeWidth" => fnResult[1] = TierWidths[RatingTier(crimes, n)]
               /\ fnCall.fn = "popupSafety" => fnResult[1] = TierLabels[RatingTier(crimes, n)]

\* getCrimeColor has been called with the risk 5, the upper end of a tier
C17_Witness ==
    /\ fnCall = [fn |-> "getCrimeColor", args |-> <<5>>]
    /\ fnResult = Some("#eab308")

DirectCalls ==
    RatingCalls \cup NeighborhoodCalls \cup BaseCrimeCalls \cup CrimeLevelCalls \cup ClassifierCalls

InitCalls ==
    graph = EmptyGraph /\ Idle /\ fnCall \in DirectCalls /\ fnResult = None /\ fnEarlier = None

NextCalls ==
    \/ CallSafetyRating
    \/ CallGetNeighborhoodForPoint
    \/ CallBaseCrime
    \/ CallGetCrimeLevel
    \/ CallGetCrimeColor
    \/ CallGetCrimeWidth
    \/ CallPopupSafety

SpecCalls == InitCalls /\ [][NextCalls]_vars

-----------------------------------------------------------------------------
(* findNearestNode called directly on a graph left by one complete build:  *)
(* C14.                                                                    *)

\* the query points of the route search and one midway between two node elements
NearestPoints == QueryPoints \cup {[lat |-> 71, lng |-> 209]}

NearestCalls == {[fn |-> "findNearestNode", args |-> <<pt.lat, pt.lng>>] : pt \in NearestPoints}

\* map.js:164-177
CallFindNearestNode ==
    /\ fnCall.fn = "findNearestNode"
    /\ Returns(findNearestNode(graph, fnCall.args[1], fnCall.args[2]))

InitNearest ==
    graph \in BuiltGraphs /\ Idle /\ fnCall \in NearestCalls /\ fnResult = None /\ fnEarlier = None

NextNearest == CallFindNearestNode

SpecNearest == InitNearest /\ [][NextNearest]_vars

\* the distance from the query point of the call to node i of the graph
QueryDistance(i) ==
    getDistance(fnCall.args[1], fnCall.args[2], graph.nodes[i].lat, graph.nodes[i].lng)

\* C14: on a graph with at least one node findNearestNode returns a node of the
\* graph at the least distance from the query point, the first such in
\* graph.nodes; it returns no node only when the graph has no node.
C14_NearestIsFirstMinimum ==
    (fnCall.fn = "findNearestNode" /\ fnResult # None) =>
        LET nearestNode == fnResult[1]
        IN  /\ (nearestNode = None) <=> (Len(graph.nodes) = 0)
            /\ nearestNode # None =>
                  \E i \in DOMAIN graph.nodes :
                     /\ graph.nodes[i] = nearestNode[1]
                     /\ \A j \in DOMAIN graph.nodes : QueryDistance(i) <= QueryDistance(j)
                     /\ \A j \in 1 .. (i - 1) : QueryDistance(i) < QueryDistance(j)

\* the query has two nearest nodes, neither at the query point, and the call
\* has returned the one that comes first in graph.nodes
C14_Witness ==
    /\ fnCall.fn = "findNearestNode"
    /\ fnResult # None
    /\ fnResult[1] # None
    /\ Len(graph.nodes) >= 3
    /\ \E i, j \in DOMAIN graph.nodes :
          /\ i < j
          /\ graph.nodes[i] = fnResult[1][1]
          /\ QueryDistance(i) = QueryDistance(j)
          /\ QueryDistance(i) > 0
          /\ \A k \in DOMAIN graph.nodes : QueryDistance(i) <= QueryDistance(k)

-----------------------------------------------------------------------------
(* The early exit of dijkstra: C15.                                        *)

RECURSIVE LoopToExhaustion(_, _)
\* the main loop without its exit at the end node: it runs until no unvisited
\* node has a distance below Infinity
LoopToExhaustion(g, st) ==
    IF st.unvisited = <<>> THEN st
    ELSE LET currentNode == SelectMin(st)
         IN  IF currentNode = null THEN st
             ELSE LoopToExhaustion(g,
                     RelaxEdges(g.edges,
                                [st EXCEPT !.unvisited =
                                    SelectSeq(st.unvisited, LAMBDA id : id # currentNode)],
                                currentNode))

\* dijkstra run to exhaustion
dijkstraToExhaustion(g, startNodeId, endNodeId) ==
    LET st == LoopToExhaustion(g, DijkstraInit(g, startNodeId))
        r == Reconstruct(st.previous, endNodeId, <<>>)
    IN  IF r = Hang THEN Hang ELSE PathOrNull(r.path)

\* C15: for every start and end node id, dijkstra with its exit at the moment
\* the end node is selected returns what the same search returns when run until
\* the unvisited set is exhausted: the same path, or null in both.
C15_EarlyExitChangesNothing ==
    (qResult.ret # "not called" /\ {qStart, qEnd} \subseteq NodeIds(graph)) =>
        qResult = dijkstraToExhaustion(graph, qStart, qEnd)

\* dijkstra has returned a path after leaving its loop with nodes other than
\* the end node still unvisited, which the run to exhaustion goes on to relax
C15_Witness ==
    /\ qResult.ret = "path"
    /\ LET early == MainLoop(graph, DijkstraInit(graph, qStart), qEnd)
           full == LoopToExhaustion(graph, DijkstraInit(graph, qStart))
       IN  /\ Len(early.unvisited) >= 2
           /\ early.distances # full.distances

-----------------------------------------------------------------------------
(* Edges in both directions: C16.                                          *)

\* the graph with from and to of edge k exchanged
SwapEdge(g, k) ==
    [g EXCEPT !.edges[k] = [g.edges[k] EXCEPT !.from = g.edges[k].to, !.to = g.edges[k].from]]

\* whether a call returned a path, and the total weight of the path if it did
Outcome(g, r) == IF r.ret = "path" THEN <<"path", PathWeight(g, r.path)>> ELSE <<r.ret, 0>>

\* C16: edges are gone along in both directions whichever end is stored as
\* from: for distinct node ids a and b, dijkstra(a, b) returns a path exactly
\* when dijkstra(b, a) does, the two paths have the same total weight, and
\* exchanging from and to on any edge changes neither.
C16_DirectionDoesNotMatter ==
    (qResult.ret # "not called" /\ qStart # qEnd /\ {qStart, qEnd} \subseteq NodeIds(graph)) =>
        \A there \in {Outcome(graph, qResult)} :
            /\ there[1] \in {"path", "null"}
            /\ Outcome(graph, dijkstra(graph, qEnd, qStart)) = there
            /\ \A k \in DOMAIN graph.edges :
                  /\ Outcome(SwapEdge(graph, k), dijkstra(SwapEdge(graph, k), qStart, qEnd)) = there
                  /\ Outcome(SwapEdge(graph, k), dijkstra(SwapEdge(graph, k), qEnd, qStart)) = there

\* dijkstra has returned a path of two segments, the first along the stored
\* direction of its only edge and the second against it
C16_Witness ==
    /\ qResult.ret = "path"
    /\ Len(qResult.path) = 3
    /\ \A k \in DOMAIN graph.edges :
          /\ Joins(graph.edges[k], qResult.path[1], qResult.path[2])
                => graph.edges[k].from = qResult.path[1]
          /\ Joins(graph.edges[k], qResult.path[2], qResult.path[3])
                => graph.edges[k].from = qResult.path[3]

-----------------------------------------------------------------------------
(* dijkstra followed statement by statement, on a graph left by one        *)
(* complete build and with ids of nodes of that graph: C18.  run.st is the *)
(* loop state [distances, previous, unvisited], run.path and run.current   *)
(* the locals of the reconstruction.                                       *)

\* what previous[k] reads when k is no key of previous
undefined == 0 - 2

\* the longest fetched way list, written flat, of the graphs followed by steps
MaxStepRefs == 4

StepDatasets ==
    {[nodes |-> OsmIds, ways |-> SplitWays(flat, <<>>)] :
        flat \in UNION {[1 .. n -> 0 .. MaxOsm] : n \in 0 .. MaxStepRefs}}

StepGraphs == {BuildInto(EmptyGraph, d) : d \in StepDatasets}

InitSteps ==
    /\ graph \in StepGraphs
    /\ served = [nodes |-> {}, ways |-> <<>>]
    /\ inflight = 0
    /\ started = 1
    /\ solo = FALSE
    /\ buildLog = <<>>
    /\ findRouteBtnDisabled = FALSE
    /\ streetLayers = visualizeStreets(graph)
    /\ startPoint = None
    /\ endPoint = None
    /\ routeLayer = None
    /\ routeInfo = NoRouteInfo
    /\ alerted = "none"
    /\ path = NotCalled
    /\ queryGraph = None
    /\ qStart \in NodeIds(graph)
    /\ qEnd \in NodeIds(graph)
    /\ qResult = NotCalled
    /\ NoDirectCall
    /\ NoClicks

StepFrame ==
    /\ UNCHANGED <<qStart, qEnd, fnCall, fnResult, fnEarlier>>
    /\ UNCHANGED buildVars
    /\ UNCHANGED routeVars
    /\ UNCHANGED clickVars

\* routing.js:10-20
DijkstraEnter ==
    /\ run.pc = "idle"
    /\ run' = [pc |-> "loop", st |-> DijkstraInit(graph, qStart), path |-> <<>>, current |-> null]
    /\ UNCHANGED qResult
    /\ StepFrame

\* routing.js:23-65: one turn of the while loop; when the loop is left, by its
\* condition or by break, path and current are set up
DijkstraIterate ==
    /\ run.pc = "loop"
    /\ LET currentNode == SelectMin(run.st)
       IN  IF run.st.unvisited = <<>> \/ currentNode = null \/ currentNode = qEnd
           THEN run' = [run EXCEPT !.pc = "rebuild", !.path = <<>>, !.current = qEnd]
           ELSE run' = [run EXCEPT !.st =
                           RelaxEdges(graph.edges,
                                      [run.st EXCEPT !.unvisited =
                                          SelectSeq(run.st.unvisited, LAMBDA id : id # currentNode)],
                                      currentNode)]
    /\ UNCHANGED qResult
    /\ StepFrame

\* routing.js:66-69: one turn of the reconstruction loop
DijkstraUnwind ==
    /\ run.pc = "rebuild"
    /\ run.current # null
    /\ run' = [run EXCEPT !.path = <<run.current>> \o run.path,
                          !.current = IF run.current \in DOMAIN run.st.previous
                                      THEN run.st.previous[run.current]
                                      ELSE undefined]
    /\ UNCHANGED qResult
    /\ StepFrame

\* routing.js:66, 71: the reconstruction loop is left and dijkstra returns
DijkstraReturn ==
    /\ run.pc = "rebuild"
    /\ run.current = null
    /\ run' = [run EXCEPT !.pc = "returned"]
    /\ qResult' = PathOrNull(run.path)
    /\ StepFrame

NextSteps == DijkstraEnter \/ DijkstraIterate \/ DijkstraUnwind \/ DijkstraReturn

\* dijkstra is synchronous code: once called it runs on, statement after
\* statement, with nothing else scheduled in between
SpecSteps == InitSteps /\ [][NextSteps]_vars /\ WF_vars(NextSteps)

\* the predecessor chain followed so far holds no node twice, is no longer than
\* the node list and goes on at a node not yet in it, or at null
ChainIsSound ==
    run.pc = "rebuild" =>
        /\ Len(run.path) <= Len(graph.nodes)
        /\ \A i, j \in DOMAIN run.path : run.path[i] = run.path[j] => i = j
        /\ run.current # null =>
              /\ run.current \in NodeIds(graph)
              /\ run.current \notin Elems(run.path)
              /\ Len(run.path) < Len(graph.nodes)

\* a turn of the main loop leaves the loop or takes one node out of unvisited
TurnShrinksUnvisited ==
    run.pc = "loop" =>
        \/ run'.pc = "rebuild"
        \/ Len(run'.st.unvisited) = Len(run.st.unvisited) - 1

\* C18: on a graph whose node ids are their indices, with startNodeId and
\* endNodeId ids of its nodes, dijkstra terminates: every turn of the main loop
\* stops it or removes one node from the unvisited set, and the predecessor
\* chain followed from endNodeId has no cycle and reaches null in at most
\* |nodes| steps.
C18_DijkstraTerminates ==
    /\ []ChainIsSound
    /\ [][TurnShrinksUnvisited]_vars
    /\ <>(run.pc = "returned")

\* dijkstra has returned a path of three nodes on a graph with a self-loop
C18_Witness ==
    /\ run.pc = "returned"
    /\ qResult.ret = "path"
    /\ Len(qResult.path) = 3
    /\ \E k \in DOMAIN graph.edges : graph.edges[k].from = graph.edges[k].to

\* the steps come to what the function, taken in one piece, comes to
StepsAgreeWithDijkstra ==
    run.pc = "returned" => qResult = dijkstra(graph, qStart, qEnd)

-----------------------------------------------------------------------------
(* Parallel edges: C19.                                                    *)

ParallelEdgesAgree(g) ==
    /\ \A j, k \in DOMAIN g.edges :
          Joins(g.edges[j], g.edges[k].from, g.edges[k].to) =>
              /\ g.edges[j].crimes = g.edges[k].crimes
              /\ g.edges[j].weight = g.edges[k].weight
    /\ \A k \in DOMAIN g.edges :
          \A found \in {FindEdge(g, g.edges[k].from, g.edges[k].to),
                         FindEdge(g, g.edges[k].to, g.edges[k].from)} :
             /\ found # None
             /\ found[1].crimes = TraversedEdge(g, g.edges[k].from, g.edges[k].to).crimes
             /\ found[1].crimes = TraversedEdge(g, g.edges[k].to, g.edges[k].from).crimes

\* C19: in every built graph any two edges that join the same unordered pair of
\* nodes, from different ways or in opposite directions, carry the same risk
\* and the same weight, so the first edge the route aggregation finds between
\* two nodes has the risk of the edge the solver relaxed.
\* (every entry of buildLog is the graph of the state that appended it)
C19_ParallelEdgesAgree ==
    (buildLog # <<>> /\ graph = buildLog[Len(buildLog)]) => ParallelEdgesAgree(graph)

\* a build has left two edges of different ways that join the same two nodes
\* in opposite directions and carry risk
C19_Witness ==
    /\ buildLog # <<>>
    /\ \E j, k \in DOMAIN buildLog[1].edges :
          LET e == buildLog[1].edges[j]
              f == buildLog[1].edges[k]
          IN  /\ e.from = f.to /\ e.to = f.from /\ e.from # e.to
              /\ e.wayId # f.wayId
              /\ e.crimes > 0

-----------------------------------------------------------------------------
(* What a failed route search leaves alone: C20.                           *)

\* the call of findSafestRoute about to be made ends in a failure: a point is
\* missing, the graph has no node, or no path joins the two nearest nodes
SearchFails ==
    \/ startPoint = None
    \/ endPoint = None
    \/ Len(graph.nodes) = 0
    \/ dijkstra(graph,
                findNearestNode(graph, startPoint[1].lat, startPoint[1].lng)[1].id,
                findNearestNode(graph, endPoint[1].lat, endPoint[1].lng)[1].id) = ReturnedNull

\* C20: whenever findSafestRoute ends in a failure (a point missing, a graph of
\* no nodes, no path found) it leaves routeLayer, the route statistics fields
\* and the visibility of the route info panel as they were before the call.
C20_FailureLeavesRouteAlone ==
    [][(SearchFails /\ FindSafestRouteClick) =>
          (routeLayer' = routeLayer /\ routeInfo' = routeInfo)]_vars

\* with a route on display a later search has found no route, and the route
\* and its panel are still there
C20_Witness ==
    /\ alerted = "No route found!"
    /\ path = ReturnedNull
    /\ routeLayer # None
    /\ routeInfo.shown
    /\ routeInfo.segments # None

-----------------------------------------------------------------------------
(* Choosing the points on the map: the click handler of ui.js, which is    *)
(* suspended at its reverse-geocoding fetch, the two address fields and    *)
(* the Clear button, in every order the event loop allows.                 *)

\* map click handlers that may be suspended at their fetch at one time
MaxPending == 2
\* map clicks followed since the page load or the last clearRoute
MaxClicks == 3

\* ui.js:154-173 and 185-200: the handler up to its await. The branch is chosen
\* by clickCount as it is at the click; the point is assigned before the
\* fetch, clickCount is not touched
MapClick(pt) ==
    /\ clicking["start"] + clicking["end"] < MaxPending
    /\ Len(clickLog) < MaxClicks
    /\ IF clickCount = 0
         THEN /\ startPoint' = Some(pt)
              /\ clicking' = [clicking EXCEPT !["start"] = @ + 1]
              /\ clickLog' = Append(clickLog, "start")
              /\ UNCHANGED endPoint
         ELSE /\ endPoint' = Some(pt)
              /\ clicking' = [clicking EXCEPT !["end"] = @ + 1]
              /\ clickLog' = Append(clickLog, "end")
              /\ UNCHANGED startPoint
    /\ UNCHANGED <<clickCount, routeLayer, routeInfo, alerted, path, queryGraph>>
    /\ UNCHANGED buildVars
    /\ UNCHANGED callVars

\* ui.js:175-184 and 202-211: a suspended handler goes on once its fetch is
\* settled, in whatever order the answers come. Answer or exception (a failed
\* fetch, bindPopup on a marker clearRoute has removed: caught at 180 and 207),
\* only the text of the address field depends on it; then clickCount is written
MapClickResume(branch) ==
    /\ clicking[branch] > 0
    /\ clicking' = [clicking EXCEPT ![branch] = @ - 1]
    /\ clickCount' = IF branch = "start" THEN 1 ELSE 0
    /\ UNCHANGED clickLog
    /\ UNCHANGED routeVars
    /\ UNCHANGED buildVars
    /\ UNCHANGED callVars

InitClicks == served = [nodes |-> {}, ways |-> <<>>] /\ PageLoaded

NextClicks ==
    \/ \E pt \in QueryPoints : MapClick(pt)
    \/ \E branch \in {"start", "end"} : MapClickResume(branch)
    \/ \E pt \in QueryPoints : StartInputChange(pt)
    \/ \E pt \in QueryPoints : EndInputChange(pt)
    \/ ClearRoute

SpecClicks == InitClicks /\ [][NextClicks]_vars

\* the map clicks since the page load or the last clearRoute set the start
\* point and the end point in turn, the first of them the start point
ClicksAlternate ==
    \A i \in DOMAIN clickLog : clickLog[i] = (IF i % 2 = 1 THEN "start" ELSE "end")

\* a clickCount of 1 comes with a start point
CountOneHasStart == clickCount = 1 => startPoint # None

\* C21: counting from the page load or the last clearRoute, successive map
\* clicks alternate between setting the start point and setting the end point
\* (odd clicks set startPoint, even clicks set endPoint), under every
\* interleaving of clicks with the completion of earlier clicks' fetches and
\* with clearRoute; and whenever clickCount is 1 a start point is set.
C21_ClicksAlternate == ClicksAlternate /\ CountOneHasStart

====
